---- MODULE Spec2Model ----
(***************************************************************************)
(* AIOS Pro license management: the `aios pro` host operations of          *)
(* .aios-core/cli/commands/pro/index.js (activate, status, deactivate,     *)
(* validate) and the FeatureGate decision engine they drive, over the      *)
(* stored license cache, the pending-deactivation tracker and the clock.   *)
(*                                                                         *)
(* Time is counted in whole days.  Strings are TLA+ strings; the string    *)
(* functions of the code (endsWith, slice, startsWith) are computed on     *)
(* them character by character with Len and SubSeq.                        *)
(***************************************************************************)
EXTENDS Integers, Sequences, FiniteSets, TLC

VARIABLES
    now,        \* the wall clock (Date.now()), in days
    cache,      \* the stored license cache file: Null, a LicenseRecord or Corrupt
    pending,    \* the pending-deactivation tracker, as hasPending() reports it
    pendingVia, \* which branch of deactivate wrote the tracker: "none", "offline", "fallback"
    gate,       \* the FeatureGate singleton: [_cache, _features]
    last,       \* what the last host call did: its outcome, requests and answer
    inflight,   \* host calls suspended on an await, with what they had read
    files       \* the files `aios pro setup` edits: .npmrc and .gitignore

vars == <<now, cache, pending, pendingVia, gate, last, inflight, files>>

----------------------------------------------------------------------------
(* Bounds of the model *)

\* the clock stops advancing at this day
MaxDay == 39

\* the days on which the host is observed: the first day, and the days around
\* the 30-day validity boundary and the 7-day grace boundary after it
ClockDays == {0, 30, 31, 37, 38, 39, MaxDay}

----------------------------------------------------------------------------
(* Values *)

\* JavaScript null / a missing file
Null == [null |-> TRUE]

\* JavaScript undefined for a numeric field (every real value is >= 0)
Undefined == 0 - 1

\* the --key option when it was not given
NoKey == ""

KeyA == "PRO-AAAA-BBBB-CCCC-DDD1"
KeyB == "PRO-AAAA-BBBB-CCCC-DDD2"

\* license keys the authority knows
Keys == {KeyA, KeyB}

\* what a user may pass as --key: nothing, malformed strings, well-formed keys
KeyInputs == {NoKey, "PRO-AAAA-BBBB-CCCC", "pro-AAAA-BBBB-CCCC-DDD1", "PRO-AAAA-BBBB-CCCC-DD_1"} \cup Keys

\* feature grants the authority hands out (the `features` array of a reply)
FeatureGrants == { {"pro.memory.*"}, {"pro.squads.premium"} }

\* feature IDs that gated call sites ask about
FeatureIds == {"pro.memory.analytics", "pro.squads.premium", "pro.squadcraft"}

\* seats the authority reports: on activation, and on a later validation
ActivateSeatReplies == { [used |-> 1, max |-> 5] }
SeatReplies == { [used |-> 2, max |-> 5] }

\* cacheValidDays / gracePeriodDays as the authority sends them
CacheValidDaysReplies == {30}
GracePeriodDaysReplies == {7}

\* the licence term the authority grants from the day of the call
LicenseTermDays == 30

----------------------------------------------------------------------------
(* license-crypto: validateKeyFormat *)

AlnumChars == {"A", "B", "C", "D", "0", "1", "2", "9", "Z"}

CharAt(s, i) == SubSeq(s, i, i)

\* /^PRO-[A-Z0-9]{4}-[A-Z0-9]{4}-[A-Z0-9]{4}-[A-Z0-9]{4}$/
validateKeyFormat(key) ==
    /\ Len(key) = 23
    /\ SubSeq(key, 1, 4) = "PRO-"
    /\ \A g \in 0..3 :
          /\ \A i \in 1..4 : CharAt(key, 4 + 5 * g + i) \in AlnumChars
          /\ (g < 3 => CharAt(key, 4 + 5 * g + 5) = "-")

----------------------------------------------------------------------------
(* license-cache: expiry arithmetic and the two storage slots *)

DefaultCacheValidDays == 30
DefaultGracePeriodDays == 7

\* a missing field read as it is, with no default
OrDefault_Missing(v, d) == v

\* JavaScript `v || d` on a numeric field
OrDefault(v, d) == IF v = Undefined \/ v = 0 THEN d ELSE v

HasLastValidated(c) == "lastValidated" \in DOMAIN c

\* the day the offline window is counted from
ValidityBase(c) == IF HasLastValidated(c) THEN c.lastValidated ELSE c.activatedAt

ExpiryDay(c) == ValidityBase(c) + OrDefault(c.cacheValidDays, DefaultCacheValidDays)

isExpired(c, t) == t > ExpiryDay(c)

isInGracePeriod(c, t) ==
    /\ isExpired(c, t)
    /\ t <= ExpiryDay(c) + OrDefault(c.gracePeriodDays, DefaultGracePeriodDays)

\* a sealed cache file whose bytes no longer verify (IntegrityError on open)
Corrupt == [corrupt |-> TRUE]

\* readLicenseCache() on stored file `file`: the record, or null when there is
\* no file or the file does not open
readLicenseCache(file) == IF file = Corrupt THEN Null ELSE file

\* the stored file after a read: a corrupt file is quarantined, best effort
AfterRead(file) == IF file = Corrupt THEN {Corrupt, Null} ELSE {file}

NoPending == [pending |-> FALSE]

\* setPendingDeactivation(key): the tracker slot holds that key
setPendingDeactivation(key) == [pending |-> TRUE, key |-> key]

----------------------------------------------------------------------------
(* FeatureGate *)

\* constructor: _cache = null, _features = new Set()
EmptyGate == [_cache |-> Null, _features |-> {}]

\* _loadCache() without the isExpired test: every stored cache is taken as fresh
LoadCache_NoExpiryTest(c, t) ==
    IF c # Null
    THEN [_cache |-> c, _features |-> c.features]
    ELSE [_cache |-> Null, _features |-> {}]

\* _loadCache(): the snapshot taken from the stored cache `c` at time `t`
LoadCache(c, t) ==
    IF c # Null /\ ~isExpired(c, t)
    THEN [_cache |-> c, _features |-> c.features]
    ELSE IF c # Null /\ isInGracePeriod(c, t)
         THEN [_cache |-> c, _features |-> c.features]
         ELSE [_cache |-> Null, _features |-> {}]

\* f.endsWith('.*')
EndsWithDotStar(f) == Len(f) >= 2 /\ SubSeq(f, Len(f) - 1, Len(f)) = ".*"

\* featureId.startsWith(prefix)
StartsWith(s, prefix) == Len(s) >= Len(prefix) /\ SubSeq(s, 1, Len(prefix)) = prefix

\* _matchWildcard with the prefix cut before the separator: f.slice(0, -2)
MatchWildcard_NoSeparator(features, featureId) ==
    \E f \in features :
        /\ EndsWithDotStar(f)
        /\ StartsWith(featureId, SubSeq(f, 1, Len(f) - 2))

\* _matchWildcard(featureId) over the snapshot's feature set
MatchWildcard(features, featureId) ==
    \E f \in features :
        /\ EndsWithDotStar(f)
        /\ StartsWith(featureId, SubSeq(f, 1, Len(f) - 1))

\* the gate after the lazy load at the head of isAvailable
GateAfterLoad(g, c, t) == IF g._cache = Null THEN LoadCache(c, t) ELSE g

\* isAvailable(featureId): the value returned
IsAvailableResult(g, c, t, featureId) ==
    LET g2 == GateAfterLoad(g, c, t)
    IN  featureId \in g2._features \/ MatchWildcard(g2._features, featureId)

\* reload(): drop the snapshot so that the next decision reads the store
ReloadGate == EmptyGate

\* getLicenseState(): recomputed from the stored cache and the clock
getLicenseState(c, t) ==
    IF c = Null THEN "Not Activated"
    ELSE IF LoadCache(c, t)._cache = Null THEN "Expired"
    ELSE IF isExpired(c, t) THEN "Grace"
    ELSE "Active"

----------------------------------------------------------------------------
(* The record of the last step: which call ran, how it ended, what it sent *)

NoReqs == <<>>

\* op: the call; exit: the process exit code (0 a normal return, 1 process.exit(1));
\* path: the branch taken; reqs: the authority calls made, in order;
\* key: the key the call was about; hadSnapshot: the gate held a snapshot when
\* the call began; answer: the value isAvailable returned; reply: the
\* authority's successful reply, granted: its `features`.
\* For status, path is the license state it displayed and shown the lines
\* printed under it.
Last(op, exit, path, reqs, key, hadSnapshot, answer) ==
    [op |-> op, exit |-> exit, path |-> path, reqs |-> reqs, key |-> key,
     hadSnapshot |-> hadSnapshot, answer |-> answer, granted |-> {}, reply |-> Null,
     shown |-> Null]

\* the same for a call that got the successful reply `result`
LastGranted(op, exit, path, reqs, key, hadSnapshot, result) ==
    [op |-> op, exit |-> exit, path |-> path, reqs |-> reqs, key |-> key,
     hadSnapshot |-> hadSnapshot, answer |-> FALSE, granted |-> result.features,
     reply |-> result, shown |-> Null]

\* no host call is suspended
NoneInFlight == [validate |-> Null, deactivate |-> Null]

\* the .npmrc file does not exist (it reads as '')
NoNpmrc == <<>>

\* before any setup: no .npmrc, and a .gitignore that does not list it.
\* npmrc is the file's content split at '\n'; gitignore is whether the
\* .gitignore content includes '.npmrc'
NoFiles == [npmrc |-> NoNpmrc, gitignore |-> FALSE]

Init ==
    /\ inflight = NoneInFlight
    /\ files = NoFiles
    /\ now = 0
    /\ cache = Null
    /\ pending = NoPending
    /\ pendingVia = "none"
    /\ gate = EmptyGate
    /\ last = Last("start", 0, "start", NoReqs, NoKey, FALSE, FALSE)

----------------------------------------------------------------------------
(* The clock *)

Tick ==
    /\ UNCHANGED <<inflight, files>>
    /\ \E t \in ClockDays :
           /\ t > now
           /\ t <= MaxDay
           /\ now' = t
           /\ last' = Last("tick", 0, "tick", NoReqs, NoKey, gate._cache # Null, FALSE)
           /\ UNCHANGED <<cache, pending, pendingVia, gate>>

----------------------------------------------------------------------------
(* Gated call sites: featureGate.isAvailable(featureId) *)

\* the stored file after the lazy load at the head of isAvailable
AfterLoad(g, file) == IF g._cache = Null THEN AfterRead(file) ELSE {file}

\* a gate that validates online when it has no snapshot
isAvailable_Validating ==
    /\ UNCHANGED <<inflight, files>>
    /\ \E featureId \in FeatureIds :
           /\ gate' = GateAfterLoad(gate, readLicenseCache(cache), now)
           /\ cache' \in AfterLoad(gate, cache)
           /\ last' = Last("isAvailable", 0, "answered",
                           IF gate._cache = Null THEN <<"validate">> ELSE NoReqs, featureId,
                           gate._cache # Null,
                           IsAvailableResult(gate, readLicenseCache(cache), now, featureId))
           /\ UNCHANGED <<now, pending, pendingVia>>

\* isAvailable(featureId) called with one of the feature IDs `ids`
isAvailableOf(ids) ==
    /\ UNCHANGED <<inflight, files>>
    /\ \E featureId \in ids :
           /\ gate' = GateAfterLoad(gate, readLicenseCache(cache), now)
           /\ cache' \in AfterLoad(gate, cache)
           /\ last' = Last("isAvailable", 0, "answered", NoReqs, featureId,
                           gate._cache # Null,
                           IsAvailableResult(gate, readLicenseCache(cache), now, featureId))
           /\ UNCHANGED <<now, pending, pendingVia>>

isAvailable == isAvailableOf(FeatureIds)

\* a require that lets every caller through
RequireThrown_Never(featureId, available) == Null

\* what require throws: nothing, or the ProFeatureError for featureId
RequireThrown(featureId, available) ==
    IF available THEN Null ELSE [error |-> "ProFeatureError", featureId |-> featureId]

\* require(featureId, friendlyName): returns, or throws ProFeatureError
require ==
    /\ UNCHANGED <<inflight, files>>
    /\ \E featureId \in FeatureIds :
           LET available == IsAvailableResult(gate, readLicenseCache(cache), now, featureId)
               thrown == RequireThrown(featureId, available)
           IN  /\ gate' = GateAfterLoad(gate, readLicenseCache(cache), now)
               /\ cache' \in AfterLoad(gate, cache)
               /\ last' = [Last("require", 0, IF thrown = Null THEN "returned" ELSE "threw",
                                 NoReqs, featureId, gate._cache # Null, available)
                              EXCEPT !.reply = thrown]
               /\ UNCHANGED <<now, pending, pendingVia>>

\* a host that calls featureGate.reload() by itself
reload ==
    /\ UNCHANGED <<inflight, files>>
    /\ /\ gate' = ReloadGate
       /\ last' = Last("reload", 0, "reload", NoReqs, NoKey, gate._cache # Null, FALSE)
       /\ UNCHANGED <<now, cache, pending, pendingVia>>

----------------------------------------------------------------------------
(* The license authority's replies (licenseApi), as the host sees them *)

\* a successful activate reply for `key` on day `t`
ActivateReplies(key, t) ==
    { [key |-> key, activatedAt |-> t, expiresAt |-> t + LicenseTermDays,
       features |-> f, seats |-> s, cacheValidDays |-> cv, gracePeriodDays |-> gp] :
      f \in FeatureGrants, s \in ActivateSeatReplies,
      cv \in CacheValidDaysReplies, gp \in GracePeriodDaysReplies }

\* a validate reply with valid: true on day `t`
ValidateReplies(t) ==
    { [valid |-> TRUE, expiresAt |-> t + LicenseTermDays,
       features |-> f, seats |-> s, cacheValidDays |-> cv, gracePeriodDays |-> gp] :
      f \in FeatureGrants, s \in SeatReplies,
      cv \in CacheValidDaysReplies, gp \in GracePeriodDaysReplies }

\* the replies tried with a cache write that succeeds (all of them) or fails
\* (one: a failed write stores nothing of the reply)
RepliesTried(replies, writeOk) ==
    IF writeOk THEN replies ELSE {CHOOSE r \in replies : TRUE}

----------------------------------------------------------------------------
(* aios pro activate *)

\* cacheData built without the reply's features
ActivateCacheData_NoFeatures(result) ==
    [key |-> result.key, activatedAt |-> result.activatedAt,
     expiresAt |-> result.expiresAt, features |-> {},
     seats |-> result.seats, cacheValidDays |-> result.cacheValidDays,
     gracePeriodDays |-> result.gracePeriodDays]

\* cacheData built without the reply's activatedAt
ActivateCacheData_NoActivatedAt(result) ==
    [key |-> result.key, activatedAt |-> Undefined,
     expiresAt |-> result.expiresAt, features |-> result.features,
     seats |-> result.seats, cacheValidDays |-> result.cacheValidDays,
     gracePeriodDays |-> result.gracePeriodDays]

\* the cacheData object built from the authority's reply
ActivateCacheData(result) ==
    [key |-> result.key, activatedAt |-> result.activatedAt,
     expiresAt |-> result.expiresAt, features |-> result.features,
     seats |-> result.seats, cacheValidDays |-> result.cacheValidDays,
     gracePeriodDays |-> result.gracePeriodDays]

\* writeLicenseCache(data) on store `c`: the stored cache afterwards
WriteLicenseCache(c, data, writeOk) == IF writeOk THEN data ELSE c

\* activate without the reload: the gate keeps its snapshot
ActivateReload_Skipped(g) == g

\* activate without the format check: every key given goes to the authority
FormatRejected_Never(key) == FALSE

\* a failed cache write treated as an error exit
ExitAfterWrite_Error(writeOk) == IF writeOk THEN 0 ELSE 1

\* a catch block that discards the stored license when activation fails
CacheAfterActivateError_Deleted(file) == Null

\* the stored file after the catch block: it reports the error and exits
CacheAfterActivateError(file) == file

\* `if (!validateKeyFormat(key))`: the key is turned away before any request
FormatRejected(key) == ~validateKeyFormat(key)

\* the exit code once the write was tried: a failure is only warned about
ExitAfterWrite(writeOk) == 0

\* "Reload feature gate" after the cache write
ActivateReload(g) == ReloadGate

activateAction ==
    /\ UNCHANGED <<inflight, files>>
    /\ \E key \in KeyInputs :
           \/ /\ key = NoKey
              /\ last' = Last("activate", 1, "nokey", NoReqs, key, gate._cache # Null, FALSE)
              /\ UNCHANGED <<now, cache, pending, pendingVia, gate>>
           \/ /\ key # NoKey
              /\ FormatRejected(key)
              /\ last' = Last("activate", 1, "format", NoReqs, key, gate._cache # Null, FALSE)
              /\ UNCHANGED <<now, cache, pending, pendingVia, gate>>
           \/ /\ key # NoKey
              /\ ~FormatRejected(key)
              /\ \/ \E writeOk \in BOOLEAN :
                    \E result \in RepliesTried(ActivateReplies(key, now), writeOk) :
                       /\ cache' = WriteLicenseCache(cache, ActivateCacheData(result), writeOk)
                       /\ gate' = ActivateReload(gate)
                       /\ last' = LastGranted("activate", ExitAfterWrite(writeOk),
                                              IF writeOk THEN "ok" ELSE "writefail",
                                              <<"activate">>, key, gate._cache # Null,
                                              result)
                       /\ UNCHANGED <<now, pending, pendingVia>>
                 \/ \E failure \in {"rejected", "network"} :
                       /\ cache' = CacheAfterActivateError(cache)
                       /\ last' = Last("activate", 1, failure, <<"activate">>, key,
                                       gate._cache # Null, FALSE)
                       /\ UNCHANGED <<now, pending, pendingVia, gate>>

----------------------------------------------------------------------------
(* aios pro validate *)

\* updatedCache that keeps the seats of the record read
ValidateCacheData_StaleSeats(c, result, t) ==
    [key |-> c.key, activatedAt |-> c.activatedAt,
     expiresAt |-> result.expiresAt, features |-> result.features,
     seats |-> c.seats, cacheValidDays |-> result.cacheValidDays,
     gracePeriodDays |-> result.gracePeriodDays, lastValidated |-> t]

\* a handler that removes the cache when the authority answers valid: false
CacheAfterInvalid_Deleted(file) == Null

\* a catch block that discards the cache when the authority cannot be reached
CacheAfterValidateError_Deleted(file) == Null

\* the updatedCache object: the record read, refreshed from the reply
ValidateCacheData(c, result, t) ==
    [key |-> c.key, activatedAt |-> c.activatedAt,
     expiresAt |-> result.expiresAt, features |-> result.features,
     seats |-> result.seats, cacheValidDays |-> result.cacheValidDays,
     gracePeriodDays |-> result.gracePeriodDays, lastValidated |-> t]

\* "Reload feature gate" after the cache write
ValidateReload(g) == ReloadGate

\* the stored file after the catch block: it reports the error and exits
CacheAfterValidateError(file) == file

\* the stored file after `if (!result.valid)`: the handler prints and returns
CacheAfterInvalid(file) == file

validateAction ==
    /\ UNCHANGED <<inflight, files>>
    /\ \/ /\ readLicenseCache(cache) = Null
          /\ cache' \in AfterRead(cache)
          /\ last' = Last("validate", 0, "nocache", NoReqs, NoKey, gate._cache # Null, FALSE)
          /\ UNCHANGED <<now, pending, pendingVia, gate>>
       \/ /\ readLicenseCache(cache) # Null
          /\ \/ \E writeOk \in BOOLEAN :
                \E result \in RepliesTried(ValidateReplies(now), writeOk) :
                   /\ cache' = WriteLicenseCache(cache, ValidateCacheData(cache, result, now), writeOk)
                   /\ gate' = ValidateReload(gate)
                   /\ last' = LastGranted("validate", ExitAfterWrite(writeOk),
                                          IF writeOk THEN "ok" ELSE "writefail",
                                          <<"validate">>, cache.key, gate._cache # Null,
                                          result)
                   /\ UNCHANGED <<now, pending, pendingVia>>
             \/ /\ cache' = CacheAfterInvalid(cache)
                /\ last' = Last("validate", 0, "invalid", <<"validate">>, cache.key,
                                gate._cache # Null, FALSE)
                /\ UNCHANGED <<now, pending, pendingVia, gate>>
             \/ \E failure \in {"rejected", "network"} :
                   /\ cache' = CacheAfterValidateError(cache)
                   /\ last' = Last("validate", 1, failure, <<"validate">>, cache.key,
                                   gate._cache # Null, FALSE)
                   /\ UNCHANGED <<now, pending, pendingVia, gate>>

----------------------------------------------------------------------------
(* aios pro deactivate *)

\* the offline branch without setPendingDeactivation
OfflinePending_Skipped(p, key) == p

\* the fallback branch without setPendingDeactivation
FallbackPending_Skipped(p, key) == p

\* a handler that clears the tracker together with the cache
PendingAfterDelete_Cleared(p) == NoPending

\* the tracker after the offline branch (no connection detected)
OfflinePending(p, key) == setPendingDeactivation(key)

\* the tracker after the fallback branch (the authority's deactivate failed)
FallbackPending(p, key) == setPendingDeactivation(key)

\* deleteLicenseCache(): the stored cache afterwards
DeleteLicenseCache == Null

\* the tracker once the handler has deleted the cache
PendingAfterDelete(p) == p

\* "Reload feature gate" after the cache deletion
DeactivateReload(g) == ReloadGate

\* a handler that sends the authority's deactivate again after it failed
DeactivateReqs_Retried(path) ==
    IF path = "online" THEN <<"isOnline", "deactivate">>
    ELSE IF path \in {"fallback", "fallbackthrew"}
         THEN <<"isOnline", "deactivate", "deactivate">>
         ELSE <<"isOnline">>

\* a catch block that removes the cache although the try block threw
CacheAfterDeactivateThrow_Deleted(file) == Null

\* the stored file after the outer catch block: it reports the error and exits
CacheAfterDeactivateThrow(file) == file

\* the paths on which isOnline() or setPendingDeactivation throws
DeactivateThrows == {"probethrew", "fallbackthrew", "offlinethrew"}

\* the tracker after the try block has gone down `path` for key k
PendingAfterSync(p, path, k) ==
    IF path = "offline" THEN OfflinePending(p, k)
    ELSE IF path = "fallback" THEN FallbackPending(p, k)
    ELSE p

\* the outcomes of the try block: the probe's answer, and then either the
\* authority's deactivate or setPendingDeactivation, returning or throwing
DeactivatePaths == {"probethrew", "online", "fallback", "fallbackthrew", "offline", "offlinethrew"}

\* the authority calls made on a path
DeactivateReqs(path) ==
    IF path \in {"online", "fallback", "fallbackthrew"}
    THEN <<"isOnline", "deactivate">>
    ELSE <<"isOnline">>

deactivateAction ==
    /\ UNCHANGED <<inflight, files>>
    /\ \/ /\ readLicenseCache(cache) = Null
          /\ cache' \in AfterRead(cache)
          /\ last' = Last("deactivate", 0, "nocache", NoReqs, NoKey, gate._cache # Null, FALSE)
          /\ UNCHANGED <<now, pending, pendingVia, gate>>
       \/ \* no --force, and the confirmation prompt was declined
          /\ readLicenseCache(cache) # Null
          /\ last' = Last("deactivate", 0, "cancelled", NoReqs, cache.key, gate._cache # Null, FALSE)
          /\ UNCHANGED <<now, cache, pending, pendingVia, gate>>
       \/ \* --force, or the confirmation prompt was accepted
          /\ readLicenseCache(cache) # Null
          /\ \E path \in DeactivatePaths :
               LET hs == gate._cache # Null
                   k == cache.key
                   p1 == PendingAfterSync(pending, path, k)
               IN  IF path \in DeactivateThrows
                   THEN /\ cache' = CacheAfterDeactivateThrow(cache)
                        /\ last' = Last("deactivate", 1, path, DeactivateReqs(path), k, hs, FALSE)
                        /\ UNCHANGED <<now, pending, pendingVia, gate>>
                   ELSE /\ cache' = DeleteLicenseCache
                        /\ pending' = PendingAfterDelete(p1)
                        /\ pendingVia' = IF path = "online" THEN pendingVia ELSE path
                        /\ gate' = DeactivateReload(gate)
                        /\ last' = Last("deactivate", 0, path, DeactivateReqs(path), k, hs, FALSE)
                        /\ UNCHANGED now

----------------------------------------------------------------------------
(* aios pro status *)

\* "Cache:" line: expiryDate = activatedAt + (cacheValidDays || 30) days,
\* daysRemaining = Math.ceil of the days from now to it
StatusCacheLine(c, t) ==
    LET expiryDay == c.activatedAt + OrDefault(c.cacheValidDays, DefaultCacheValidDays)
        daysRemaining == expiryDay - t
    IN  [cacheLine |-> IF daysRemaining > 0 THEN "valid" ELSE "expired",
         expiryDay |-> expiryDay, daysRemaining |-> daysRemaining]

\* "Grace Period Active (n days)": n = gracePeriodDays || 7 when info.inGrace,
\* no line (Undefined) otherwise
StatusGraceLine(c, state) ==
    IF state = "Grace" THEN OrDefault(c.gracePeriodDays, DefaultGracePeriodDays) ELSE Undefined

\* whether "Pending Offline Deactivation" is printed: the handler returns
\* before that block when no cache was read
StatusPendingWarning(c, p) == c # Null /\ p.pending

\* the lines status prints under the state
StatusShown(c, state, p, t) ==
    IF c = Null
    THEN [cacheLine |-> "none", expiryDay |-> Undefined, daysRemaining |-> Undefined,
          graceDays |-> Undefined, pendingWarning |-> StatusPendingWarning(c, p)]
    ELSE [cacheLine |-> StatusCacheLine(c, t).cacheLine,
          expiryDay |-> StatusCacheLine(c, t).expiryDay,
          daysRemaining |-> StatusCacheLine(c, t).daysRemaining,
          graceDays |-> StatusGraceLine(c, state),
          pendingWarning |-> StatusPendingWarning(c, p)]

\* a status that reconciles the tracker while it reports
statusAction_Reconciling ==
    /\ UNCHANGED <<inflight, files>>
    /\ LET c == readLicenseCache(cache)
       IN  /\ cache' \in AfterRead(cache)
           /\ pending' = NoPending
           /\ last' = [Last("status", 0, getLicenseState(c, now), NoReqs,
                            IF c = Null THEN NoKey ELSE c.key, gate._cache # Null, FALSE)
                         EXCEPT !.shown = StatusShown(c, getLicenseState(c, now), pending, now)]
           /\ UNCHANGED <<now, pendingVia, gate>>

statusAction ==
    /\ UNCHANGED <<inflight, files>>
    /\ LET c == readLicenseCache(cache)
       IN  /\ cache' \in AfterRead(cache)
           /\ last' = [Last("status", 0, getLicenseState(c, now), NoReqs,
                            IF c = Null THEN NoKey ELSE c.key, gate._cache # Null, FALSE)
                         EXCEPT !.shown = StatusShown(c, getLicenseState(c, now), pending, now)]
           /\ UNCHANGED <<now, pending, pendingVia, gate>>

----------------------------------------------------------------------------
(* aios pro features *)

\* listByModule() / listAvailable(): the listing drawn from the gate's
\* current feature set
featuresAction ==
    /\ UNCHANGED <<inflight, files>>
    /\ /\ last' = Last("features", 0, "listed", NoReqs, NoKey, gate._cache # Null,
                       \E f \in FeatureIds :
                           f \in gate._features \/ MatchWildcard(gate._features, f))
       /\ UNCHANGED <<now, cache, pending, pendingVia, gate>>

----------------------------------------------------------------------------
(* The sealed cache file altered on disk, outside the program *)

Tamper ==
    /\ UNCHANGED <<inflight, files>>
    /\ /\ cache # Null
       /\ cache # Corrupt
       /\ cache' = Corrupt
       /\ last' = Last("tamper", 0, "tamper", NoReqs, NoKey, gate._cache # Null, FALSE)
       /\ UNCHANGED <<now, pending, pendingVia, gate>>

----------------------------------------------------------------------------

Next ==
    \/ Tick
    \/ isAvailable
    \/ require
    \/ reload
    \/ activateAction
    \/ validateAction
    \/ deactivateAction
    \/ statusAction
    \/ featuresAction
    \/ Tamper

Spec == Init /\ [][Next]_vars

----------------------------------------------------------------------------
(* The host under a wall clock that can also be set back: Date.now() and
   new Date() read the system time, which an operator or a time sync may move
   to an earlier day between two calls *)

ClockSetBack ==
    /\ UNCHANGED <<inflight, files>>
    /\ \E t \in ClockDays :
           /\ t < now
           /\ now' = t
           /\ last' = Last("setback", 0, "setback", NoReqs, NoKey, gate._cache # Null, FALSE)
           /\ UNCHANGED <<cache, pending, pendingVia, gate>>

NextClock ==
    \/ Tick
    \/ ClockSetBack
    \/ activateAction
    \/ validateAction
    \/ statusAction

SpecClock == Init /\ [][NextClock]_vars

----------------------------------------------------------------------------
(* Two CLI invocations at once: a validate and a deactivate, each running its
   handler in its own process and giving way to the other at every await,
   with activate run whole between their steps; all within one day *)

\* validate up to `await licenseApi.validate(...)`: the cache has been read
validateBegin ==
    /\ inflight.validate = Null
    /\ LET c == readLicenseCache(cache)
       IN  /\ cache' \in AfterRead(cache)
           /\ IF c = Null
              THEN /\ last' = Last("validate", 0, "nocache", NoReqs, NoKey, gate._cache # Null, FALSE)
                   /\ UNCHANGED inflight
              ELSE /\ last' = Last("validate:begin", 0, "awaiting", <<"validate">>, c.key,
                                   gate._cache # Null, FALSE)
                   /\ inflight' = [inflight EXCEPT !.validate = [cache |-> c]]
    /\ UNCHANGED <<now, pending, pendingVia, gate, files>>

\* a validate that reads the cache again after the await and writes nothing
\* when it is gone
validateFinish_Rereads ==
    /\ inflight.validate # Null
    /\ inflight' = [inflight EXCEPT !.validate = Null]
    /\ LET c == inflight.validate.cache
       IN  \E result \in ValidateReplies(now) :
              /\ cache' = IF readLicenseCache(cache) = Null THEN cache
                          ELSE ValidateCacheData(c, result, now)
              /\ gate' = ValidateReload(gate)
              /\ last' = LastGranted("validate", 0, "ok", <<"validate">>, c.key,
                                     gate._cache # Null, result)
              /\ UNCHANGED <<now, pending, pendingVia, files>>

\* validate from the authority's answer on: the record read before the await
\* is refreshed and written
validateFinish ==
    /\ inflight.validate # Null
    /\ inflight' = [inflight EXCEPT !.validate = Null]
    /\ LET c == inflight.validate.cache
       IN  \/ \E writeOk \in BOOLEAN :
                \E result \in RepliesTried(ValidateReplies(now), writeOk) :
                   /\ cache' = WriteLicenseCache(cache, ValidateCacheData(c, result, now), writeOk)
                   /\ gate' = ValidateReload(gate)
                   /\ last' = LastGranted("validate", ExitAfterWrite(writeOk),
                                          IF writeOk THEN "ok" ELSE "writefail",
                                          <<"validate">>, c.key, gate._cache # Null, result)
                   /\ UNCHANGED <<now, pending, pendingVia, files>>
           \/ /\ cache' = CacheAfterInvalid(cache)
              /\ last' = Last("validate", 0, "invalid", <<"validate">>, c.key,
                              gate._cache # Null, FALSE)
              /\ UNCHANGED <<now, pending, pendingVia, gate, files>>
           \/ \E failure \in {"rejected", "network"} :
                 /\ cache' = CacheAfterValidateError(cache)
                 /\ last' = Last("validate", 1, failure, <<"validate">>, c.key,
                                 gate._cache # Null, FALSE)
                 /\ UNCHANGED <<now, pending, pendingVia, gate, files>>

\* deactivate (--force) up to `await licenseApi.isOnline()`
deactivateBegin ==
    /\ inflight.deactivate = Null
    /\ LET c == readLicenseCache(cache)
       IN  /\ cache' \in AfterRead(cache)
           /\ IF c = Null
              THEN /\ last' = Last("deactivate", 0, "nocache", NoReqs, NoKey, gate._cache # Null, FALSE)
                   /\ UNCHANGED inflight
              ELSE /\ last' = Last("deactivate:begin", 0, "awaiting", <<"isOnline">>, c.key,
                                   gate._cache # Null, FALSE)
                   /\ inflight' = [inflight EXCEPT !.deactivate = [pc |-> "try", cache |-> c, path |-> ""]]
    /\ UNCHANGED <<now, pending, pendingVia, gate, files>>

\* the try block from the probe's answer up to deleteLicenseCache(): the
\* authority's deactivate or setPendingDeactivation, returning or throwing
deactivateSync ==
    /\ inflight.deactivate # Null
    /\ inflight.deactivate.pc = "try"
    /\ \E path \in DeactivatePaths :
         LET k == inflight.deactivate.cache.key
         IN  IF path \in DeactivateThrows
             THEN /\ cache' = CacheAfterDeactivateThrow(cache)
                  /\ inflight' = [inflight EXCEPT !.deactivate = Null]
                  /\ last' = Last("deactivate", 1, path, DeactivateReqs(path), k,
                                  gate._cache # Null, FALSE)
                  /\ UNCHANGED <<pending, pendingVia>>
             ELSE /\ pending' = PendingAfterSync(pending, path, k)
                  /\ pendingVia' = IF path = "online" THEN pendingVia ELSE path
                  /\ inflight' = [inflight EXCEPT !.deactivate.pc = "delete",
                                                  !.deactivate.path = path]
                  /\ last' = Last("deactivate:sync", 0, path, DeactivateReqs(path), k,
                                  gate._cache # Null, FALSE)
                  /\ UNCHANGED cache
    /\ UNCHANGED <<now, gate, files>>

\* deleteLicenseCache() and featureGate.reload()
deactivateDelete ==
    /\ inflight.deactivate # Null
    /\ inflight.deactivate.pc = "delete"
    /\ cache' = DeleteLicenseCache
    /\ pending' = PendingAfterDelete(pending)
    /\ gate' = DeactivateReload(gate)
    /\ inflight' = [inflight EXCEPT !.deactivate = Null]
    /\ last' = Last("deactivate", 0, inflight.deactivate.path,
                    DeactivateReqs(inflight.deactivate.path),
                    inflight.deactivate.cache.key, gate._cache # Null, FALSE)
    /\ UNCHANGED <<now, pendingVia, files>>

NextInterleave ==
    \/ activateAction
    \/ validateBegin
    \/ validateFinish
    \/ deactivateBegin
    \/ deactivateSync
    \/ deactivateDelete

SpecInterleave == Init /\ [][NextInterleave]_vars

----------------------------------------------------------------------------
(* The host over a record whose reply left out cacheValidDays or
   gracePeriodDays *)

\* what a reply may state for the two windows: nothing, or the usual days
SparseCacheValidDays == {Undefined} \cup CacheValidDaysReplies
SparseGracePeriodDays == {Undefined} \cup GracePeriodDaysReplies

\* the records activate stored on day 0 from such replies
SparseRecords ==
    { ActivateCacheData([key |-> KeyA, activatedAt |-> 0, expiresAt |-> LicenseTermDays,
                         features |-> f, seats |-> s,
                         cacheValidDays |-> cv, gracePeriodDays |-> gp]) :
      f \in FeatureGrants, s \in ActivateSeatReplies,
      cv \in SparseCacheValidDays, gp \in SparseGracePeriodDays }

InitDefaults ==
    /\ inflight = NoneInFlight
    /\ files = NoFiles
    /\ now = 0
    /\ cache \in SparseRecords
    /\ pending = NoPending
    /\ pendingVia = "none"
    /\ gate = EmptyGate
    /\ last = Last("start", 0, "start", NoReqs, NoKey, FALSE, FALSE)

NextDefaults ==
    \/ Tick
    \/ isAvailable
    \/ require
    \/ reload
    \/ statusAction
    \/ featuresAction
    \/ validateAction
    \/ deactivateAction

SpecDefaults == InitDefaults /\ [][NextDefaults]_vars

----------------------------------------------------------------------------
(* aios pro setup (project-level: options.global not given) *)

\* setup is not run on a file longer than this
MaxNpmrcLines == 8

scopeConfig == "@aios:registry=https://npm.pkg.github.com"
tokenConfig == "//npm.pkg.github.com/:_authToken="
setupComment == "# AIOS Pro - GitHub Packages (added by aios pro setup)"

\* --token, or the answer to the prompt: nothing, GitHub PATs, another string
SetupTokens == {"", "ghp_a", "github_pat_b", "tok"}

\* s.includes(sub)
Includes(s, sub) ==
    \E i \in 1..(Len(s) - Len(sub) + 1) : SubSeq(s, i, i + Len(sub) - 1) = sub

\* s.trimEnd() on a string without line breaks
RECURSIVE TrimEndStr(_)
TrimEndStr(s) ==
    IF Len(s) > 0 /\ CharAt(s, Len(s)) \in {" ", "\t"}
    THEN TrimEndStr(SubSeq(s, 1, Len(s) - 1))
    ELSE s

\* content.trimEnd() on content split at '\n': trailing blank lines go, with
\* the line breaks before them, and the last line left loses its trailing blanks
RECURSIVE TrimEnd(_)
TrimEnd(lines) ==
    IF Len(lines) = 1 THEN <<TrimEndStr(lines[1])>>
    ELSE IF TrimEndStr(lines[Len(lines)]) = ""
         THEN TrimEnd(SubSeq(lines, 1, Len(lines) - 1))
         ELSE Append(SubSeq(lines, 1, Len(lines) - 1), TrimEndStr(lines[Len(lines)]))

\* fs.readFileSync(npmrcPath, 'utf8') split at '\n'; '' when there is no file
ReadNpmrc(file) == IF file = NoNpmrc THEN <<"">> ELSE file

\* npmrcContent.includes('@aios:registry')
AlreadyConfigured(lines) == \E i \in 1..Len(lines) : Includes(lines[i], "@aios:registry")

\* the filter of "Remove existing @aios config"
KeepLine(line) ==
    ~Includes(line, "@aios:") /\ ~Includes(line, "npm.pkg.github.com/:_authToken")

\* split('\n').filter(...).join('\n'), split again: no line left joins to ''
RemoveExisting(lines) ==
    IF SelectSeq(lines, KeepLine) = <<>> THEN <<"">> ELSE SelectSeq(lines, KeepLine)

\* the content written: what is kept, trimmed, followed by newConfig
NewNpmrc(lines, token) ==
    TrimEnd(IF AlreadyConfigured(lines) THEN RemoveExisting(lines) ELSE lines)
        \o <<setupComment, scopeConfig, tokenConfig \o token, "">>

\* token.startsWith('ghp_') || token.startsWith('github_pat_')
LooksLikePat(token) == StartsWith(token, "ghp_") \/ StartsWith(token, "github_pat_")

setupAction ==
    /\ Len(ReadNpmrc(files.npmrc)) <= MaxNpmrcLines
    /\ \E token \in SetupTokens, confirmed \in BOOLEAN, writeOk \in BOOLEAN, ignoreOk \in BOOLEAN :
         LET lines == ReadNpmrc(files.npmrc)
             path == IF token = "" THEN "skipped"
                     ELSE IF ~LooksLikePat(token) /\ ~confirmed THEN "declined"
                     ELSE IF AlreadyConfigured(lines) /\ ~confirmed THEN "kept"
                     ELSE IF ~writeOk THEN "writefail"
                     ELSE "written"
         IN  /\ files' = IF path = "written"
                         THEN [npmrc |-> NewNpmrc(lines, token),
                               gitignore |-> files.gitignore \/ ignoreOk]
                         ELSE files
             /\ last' = Last("setup", IF path = "writefail" THEN 1 ELSE 0, path, NoReqs, token,
                             gate._cache # Null, FALSE)
    /\ UNCHANGED <<now, cache, pending, pendingVia, gate, inflight>>

\* .npmrc files a project may have before setup is run
InitialNpmrcs ==
    { NoNpmrc,
      <<"registry=https://registry.npmjs.org/">>,
      <<"registry=https://registry.npmjs.org/", "save-exact=true  ", "", "">>,
      <<"@aios:registry=https://npm.pkg.github.com",
        "//npm.pkg.github.com/:_authToken=ghp_old", "">>,
      <<"@other:registry=https://npm.pkg.github.com", "always-auth=true">> }

InitSetup ==
    /\ inflight = NoneInFlight
    /\ files \in [npmrc : InitialNpmrcs, gitignore : BOOLEAN]
    /\ now = 0
    /\ cache = Null
    /\ pending = NoPending
    /\ pendingVia = "none"
    /\ gate = EmptyGate
    /\ last = Last("start", 0, "start", NoReqs, NoKey, FALSE, FALSE)

NextSetup == setupAction

SpecSetup == InitSetup /\ [][NextSetup]_vars

----------------------------------------------------------------------------
(* FeatureGate matching by itself: a gate over a stored record with any small
   set of grants, asked about feature IDs near those grants *)

\* the most grants in a stored record
MaxGrants == 2

\* grants: wildcards, one a proper prefix of another, and an exact ID
WildcardGrants == {"pro.squads.*", "pro.squad.*", "pro.*", "pro.squads.premium", "pro.squadcraft*"}

WildcardGrantSets == {G \in SUBSET WildcardGrants : Cardinality(G) <= MaxGrants}

\* feature IDs asked about
WildcardIds ==
    {"pro.squads.premium", "pro.squadcraft", "pro.squads", "pro.squads.", "pro.squad.x",
     "pro.squads.*", "pro.memory.analytics", "Pro.squads.premium", "pro.squadcraft*", "pro"}

\* a record activated on day 0 with the grants G
RecordGranting(G) ==
    ActivateCacheData([key |-> KeyA, activatedAt |-> 0, expiresAt |-> LicenseTermDays,
                       features |-> G, seats |-> [used |-> 1, max |-> 5],
                       cacheValidDays |-> DefaultCacheValidDays,
                       gracePeriodDays |-> DefaultGracePeriodDays])

InitMatch ==
    /\ inflight = NoneInFlight
    /\ files = NoFiles
    /\ now = 0
    /\ cache \in {RecordGranting(G) : G \in WildcardGrantSets}
    /\ pending = NoPending
    /\ pendingVia = "none"
    /\ gate = EmptyGate
    /\ last = Last("start", 0, "start", NoReqs, NoKey, FALSE, FALSE)

isAvailableMatch == isAvailableOf(WildcardIds)

NextMatch ==
    \/ isAvailableMatch
    \/ reload

SpecMatch == InitMatch /\ [][NextMatch]_vars

----------------------------------------------------------------------------
(* Properties *)

LicenseStates == {"Not Activated", "Active", "Grace", "Expired"}

\* the license record a read of the store returns now
Stored == readLicenseCache(cache)

\* the license state computed from the stored cache and the clock
StateNow == getLicenseState(Stored, now)

\* what isAvailable(featureId) returns if it is called now
AvailableNow(featureId) == IsAvailableResult(gate, Stored, now, featureId)

\* what a gate without a snapshot returns for featureId now
AvailableFresh(featureId) == IsAvailableResult(EmptyGate, Stored, now, featureId)

\* the calls that ended having written or deleted the cache (or tried the write)
MutatingPaths == {"ok", "writefail", "online", "fallback", "offline"}

\* C1: in every reachable state, for every feature ID, isAvailable returns
\* false whenever the license state computed from (cache, now) is
\* Not Activated or Expired, whatever feature set is cached.
C1_GatingDenial ==
    StateNow \in {"Not Activated", "Expired"} =>
        \A f \in FeatureIds : ~AvailableNow(f)

\* C2: once a validate has succeeded after a deactivate that ran offline,
\* hasPending() reports pending = false.
C2_ValidateClearsPending ==
    (last.op = "validate" /\ last.path = "ok" /\ pendingVia = "offline") =>
        pending = NoPending

\* C3: once an activate has succeeded after a deactivate that ran offline,
\* hasPending() reports pending = false.
C3_ActivateClearsPending ==
    (last.op = "activate" /\ last.path = "ok" /\ pendingVia = "offline") =>
        pending.pending = FALSE

\* C4: when deactivate has run with a cached license while isOnline() was
\* false, the cache is absent, hasPending() reports the key that was cached,
\* and no deactivate request went to the authority.
C4_OfflineDeactivate ==
    (last.op = "deactivate" /\ last.path = "offline") =>
        /\ cache = Null
        /\ pending = [pending |-> TRUE, key |-> last.key]
        /\ \A i \in 1..Len(last.reqs) : last.reqs[i] # "deactivate"
        /\ last.exit = 0

C4_Witness ==
    /\ last.op = "deactivate"
    /\ last.path = "offline"
    /\ last.key = KeyA
    /\ pending.pending

\* C5: when the probe said online and the authority's deactivate failed,
\* the pending record holds the cached key, the cache is deleted and the
\* call returns without an error exit.
C5_FallbackDeactivate ==
    (last.op = "deactivate" /\ last.path = "fallback") =>
        /\ last.reqs = <<"isOnline", "deactivate">>
        /\ pending = [pending |-> TRUE, key |-> last.key]
        /\ cache = Null
        /\ last.exit = 0

C5_Witness ==
    /\ last.op = "deactivate"
    /\ last.path = "fallback"
    /\ last.reqs = <<"isOnline", "deactivate">>
    /\ cache = Null

\* C6: a step that deletes the cache leaves the tracker as it was just before
\* the deletion: the record that deactivate has just set for the cached key,
\* or, when it set none, the record that was pending before the call.
C6_DeleteKeepsPending ==
    [][ (Stored # Null /\ cache' = Null) =>
            /\ (last'.path \in {"offline", "fallback"} =>
                    pending' = [pending |-> TRUE, key |-> cache.key])
            /\ (last'.path = "online" => pending' = pending) ]_vars

\* an online deactivation has deleted the cache and an older pending record
\* is still reported
C6_Witness ==
    /\ last.op = "deactivate"
    /\ last.path = "online"
    /\ cache = Null
    /\ pending.pending

\* C7: once activate, validate or deactivate has returned from a path that
\* writes or deletes the cache, the gate holds no snapshot and its answers
\* are those computed from the stored cache.
C7_ReloadAfterMutation ==
    (last.op \in {"activate", "validate", "deactivate"} /\ last.path \in MutatingPaths) =>
        /\ gate._cache = Null
        /\ \A f \in FeatureIds : AvailableNow(f) = AvailableFresh(f)

\* an activate replaced the cache while the gate held a snapshot
C7_Witness ==
    /\ last.op = "activate"
    /\ last.path = "ok"
    /\ last.hadSnapshot
    /\ gate._cache = Null

\* a cache written by activate and never revalidated, with the windows 30 and 7
C8_Unrevalidated ==
    /\ Stored # Null
    /\ ~HasLastValidated(Stored)
    /\ Stored.cacheValidDays = 30
    /\ Stored.gracePeriodDays = 7

\* the feature IDs the cached grants cover
Granted(f) == f \in Stored.features \/ MatchWildcard(Stored.features, f)

\* C8: 31 days after an activation that was never revalidated the state is
\* Grace and a granted feature is still available; 8 days later the state is
\* Expired and the feature is not available, whether or not the gate answered
\* earlier.
C8_OfflineGrace ==
    C8_Unrevalidated =>
        /\ now = Stored.activatedAt + 31 =>
              /\ StateNow = "Grace"
              /\ \A f \in FeatureIds : Granted(f) => AvailableNow(f)
        /\ now = Stored.activatedAt + 39 =>
              /\ StateNow = "Expired"
              /\ \A f \in FeatureIds : ~AvailableNow(f)

\* C9: the state is exactly one of the four; no cache gives Not Activated, a
\* cache that is not expired gives Active, an expired cache within grace gives
\* Grace, an expired cache past grace gives Expired; status displays it.
C9_StateTotality ==
    /\ StateNow \in LicenseStates
    /\ (StateNow = "Not Activated") <=> (Stored = Null)
    /\ (StateNow = "Active") <=> (Stored # Null /\ ~isExpired(Stored, now))
    /\ (StateNow = "Grace") <=>
          (Stored # Null /\ isExpired(Stored, now) /\ isInGracePeriod(Stored, now))
    /\ (StateNow = "Expired") <=>
          (Stored # Null /\ isExpired(Stored, now) /\ ~isInGracePeriod(Stored, now))
    /\ (last.op = "status" => last.path = StateNow)

\* status has displayed Expired for a cache that is past its grace period
C9_Witness ==
    /\ last.op = "status"
    /\ last.path = "Expired"
    /\ Stored # Null
    /\ now > ExpiryDay(Stored) + 7

\* C10: right after an activate that stored a reply with features
\* ["pro.memory.*"], cacheValidDays 30 and gracePeriodDays 7, the state is
\* Active and isAvailable("pro.memory.analytics") is true.
C10_FreshActivation ==
    (last.op = "activate" /\ last.path = "ok" /\ last.granted = {"pro.memory.*"}) =>
        /\ StateNow = "Active"
        /\ AvailableNow("pro.memory.analytics")

C10_Witness ==
    /\ last.op = "activate"
    /\ last.path = "ok"
    /\ last.granted = {"pro.memory.*"}
    /\ Stored.cacheValidDays = 30
    /\ Stored.gracePeriodDays = 7
    /\ AvailableNow("pro.memory.analytics")

\* C11: each successful validate stores a lastValidated that is not earlier
\* than the lastValidated of the record it read, which the previous
\* successful validate stored.
C11_LastValidatedMonotonic ==
    [][ (last'.op = "validate" /\ last'.path = "ok" /\ HasLastValidated(Stored)) =>
            cache'.lastValidated >= Stored.lastValidated ]_vars

\* C12: when the authority call of validate fails (the request is refused or
\* the network is down), the stored cache is exactly as before, and the
\* license state and every isAvailable answer are what they were.
C12_ValidateFailureKeepsCache ==
    [][ (last'.op = "validate" /\ last'.path \in {"rejected", "network"}) =>
            /\ cache' = cache
            /\ StateNow' = StateNow
            /\ \A f \in FeatureIds : AvailableNow(f)' = AvailableNow(f) ]_vars

\* a validate has failed on the network while the license was in grace and
\* a feature was still available
C12_Witness ==
    /\ last.op = "validate"
    /\ last.path = "network"
    /\ StateNow = "Grace"
    /\ \E f \in FeatureIds : AvailableNow(f)

\* C13: an activate with no key, or with a key that validateKeyFormat turns
\* away, ends with an error exit having sent no request, written no cache and
\* left the gate as it was.
C13_LocalKeyFailure ==
    [][ (last'.op = "activate" /\ (last'.key = NoKey \/ ~validateKeyFormat(last'.key))) =>
            /\ last'.exit = 1
            /\ last'.reqs = NoReqs
            /\ cache' = cache
            /\ gate' = gate ]_vars

\* a malformed key was turned away while a license was stored and the gate
\* held a snapshot
C13_Witness ==
    /\ last.op = "activate"
    /\ last.path = "format"
    /\ last.key = "PRO-AAAA-BBBB-CCCC-DD_1"
    /\ Stored # Null
    /\ gate._cache # Null

\* C14: one call of activate, validate or deactivate sends each kind of
\* request at most once; a valid: false reply or a failed call ends it after
\* that one request.
C14_NoRetry ==
    /\ \A i, j \in 1..Len(last.reqs) : i # j => last.reqs[i] # last.reqs[j]
    /\ (last.op \in {"activate", "validate"} /\ last.path \in {"invalid", "rejected", "network"}) =>
          last.reqs = <<last.op>>
    /\ (last.op = "deactivate" /\ last.path \in {"fallback", "fallbackthrew"}) =>
          last.reqs = <<"isOnline", "deactivate">>

\* the authority's deactivate failed and the call fell back to the tracker
C14_Witness ==
    /\ last.op = "deactivate"
    /\ last.path = "fallback"
    /\ Len(last.reqs) = 2
    /\ pending.pending

\* C15: only activate, validate and deactivate call the authority;
\* isAvailable, require, status and the feature listing send nothing; isOnline
\* is called by deactivate only.
C15_AuthorityCallers ==
    /\ last.reqs # NoReqs => last.op \in {"activate", "validate", "deactivate"}
    /\ last.op \in {"isAvailable", "require", "status", "features"} => last.reqs = NoReqs
    /\ (\E i \in 1..Len(last.reqs) : last.reqs[i] = "isOnline") => last.op = "deactivate"

\* isAvailable has loaded the stored cache by itself and granted a feature
C15_Witness ==
    /\ last.op = "isAvailable"
    /\ ~last.hadSnapshot
    /\ last.answer
    /\ last.reqs = NoReqs

\* C16: a validate that succeeds stores the key and activatedAt of the record
\* it read, the features, seats, expiresAt, cacheValidDays and gracePeriodDays
\* of the reply, and the day of the validation as lastValidated.
C16_RefreshInPlace ==
    [][ (last'.op = "validate" /\ last'.path = "ok") =>
            cache' = [key |-> Stored.key,
                      activatedAt |-> Stored.activatedAt,
                      expiresAt |-> last'.reply.expiresAt,
                      features |-> last'.reply.features,
                      seats |-> last'.reply.seats,
                      cacheValidDays |-> last'.reply.cacheValidDays,
                      gracePeriodDays |-> last'.reply.gracePeriodDays,
                      lastValidated |-> now] ]_vars

\* a validate on a later day than the activation has replaced the seats and
\* the features and kept the key
C16_Witness ==
    /\ last.op = "validate"
    /\ last.path = "ok"
    /\ Stored.key = KeyB
    /\ Stored.lastValidated > Stored.activatedAt
    /\ Stored.seats = last.reply.seats
    /\ Stored.features = {"pro.squads.premium"}

\* C17: when writeLicenseCache reports failure during activate or validate,
\* the call ends without an error exit and the stored cache is as before.
C17_WriteFailureAbsorbed ==
    [][ (last'.op \in {"activate", "validate"} /\ last'.path = "writefail") =>
            /\ last'.exit = 0
            /\ cache' = cache ]_vars

\* a validate could not write its refreshed record
C17_Witness ==
    /\ last.op = "validate"
    /\ last.path = "writefail"
    /\ last.exit = 0
    /\ Stored # Null

\* C18: status sends nothing to the authority and leaves the license record
\* and the tracker as they were; the one change a status can make to the
\* stored file is the quarantine of a corrupt file by the read.
C18_StatusReadOnly ==
    [][ last'.op = "status" =>
            /\ last'.reqs = NoReqs
            /\ pending' = pending
            /\ readLicenseCache(cache') = Stored
            /\ (cache' # cache => (cache = Corrupt /\ cache' = Null)) ]_vars

\* status has run with a license stored and a deactivation pending
C18_Witness ==
    /\ last.op = "status"
    /\ last.path = "Active"
    /\ pending.pending
    /\ Stored # Null

\* C20: while the sealed cache file is corrupt a read returns null and the
\* state is Not Activated, which status displays; an activate that succeeds
\* then stores its record, and the state is Active with the granted features
\* available.
C20_TamperRecovery ==
    [][ cache = Corrupt =>
            /\ Stored = Null
            /\ StateNow = "Not Activated"
            /\ (last'.op = "status" => last'.path = "Not Activated")
            /\ (last'.op = "activate" /\ last'.path = "ok") =>
                  /\ readLicenseCache(cache') = ActivateCacheData(last'.reply)
                  /\ StateNow' = "Active"
                  /\ \A f \in FeatureIds : Granted(f)' => AvailableNow(f)' ]_vars

\* status has read a corrupt file and displayed Not Activated
C20_Witness ==
    /\ last.op = "status"
    /\ last.path = "Not Activated"
    /\ cache = Corrupt

\* grant `g` covers feature ID `id`: a grant that ends in ".*" covers the IDs
\* that begin with the grant less its "*", any other grant covers itself
Covers(g, id) ==
    IF Len(g) >= 2 /\ CharAt(g, Len(g) - 1) = "." /\ CharAt(g, Len(g)) = "*"
    THEN /\ Len(id) >= Len(g) - 1
         /\ \A i \in 1..(Len(g) - 1) : CharAt(id, i) = CharAt(g, i)
    ELSE id = g

\* C19: isAvailable answers true exactly for the feature IDs that a stored
\* grant covers: a grant ending in ".*" covers the IDs that start with the
\* grant less the "*", an exact grant covers only itself; under
\* "pro.squads.*", "pro.squads.premium" is available and "pro.squadcraft" is not.
C19_WildcardMatching ==
    last.op = "isAvailable" =>
        /\ last.answer = (\E g \in Stored.features : Covers(g, last.key))
        /\ (Stored.features = {"pro.squads.*"} /\ last.key = "pro.squads.premium") => last.answer
        /\ (Stored.features = {"pro.squads.*"} /\ last.key = "pro.squadcraft") => ~last.answer

\* under the one grant "pro.squad.*" the gate has refused "pro.squadcraft"
C19_Witness ==
    /\ last.op = "isAvailable"
    /\ Stored.features = {"pro.squad.*"}
    /\ last.key = "pro.squadcraft"
    /\ ~last.answer

\* C21: require throws a ProFeatureError carrying the feature ID it was
\* called with exactly when isAvailable is false for that ID, and returns
\* otherwise; either way the license record and the tracker are as before.
C21_RequireThrows ==
    [][ last'.op = "require" =>
            LET available == IsAvailableResult(gate, Stored, now, last'.key)
            IN  /\ available => (last'.path = "returned" /\ last'.reply = Null)
                /\ ~available =>
                      /\ last'.path = "threw"
                      /\ last'.reply = [error |-> "ProFeatureError", featureId |-> last'.key]
                /\ readLicenseCache(cache') = Stored
                /\ pending' = pending ]_vars

\* require has thrown for a feature the stored license does not grant
C21_Witness ==
    /\ last.op = "require"
    /\ last.path = "threw"
    /\ last.reply.featureId = "pro.squadcraft"
    /\ StateNow = "Active"

\* record c with the windows 30 and 7 written where it states none
Stated(c) ==
    [c EXCEPT !.cacheValidDays = IF @ = Undefined THEN 30 ELSE @,
              !.gracePeriodDays = IF @ = Undefined THEN 7 ELSE @]

\* C22: a stored record that leaves out cacheValidDays or gracePeriodDays has
\* the expiry and grace boundaries, the state, the isAvailable answers and
\* the status lines of the same record stating 30 and 7, and every call on it
\* ends without an error exit.
C22_MissingWindowsDefault ==
    Stored # Null =>
        /\ isExpired(Stored, now) = isExpired(Stated(Stored), now)
        /\ isInGracePeriod(Stored, now) = isInGracePeriod(Stated(Stored), now)
        /\ StateNow = getLicenseState(Stated(Stored), now)
        /\ \A f \in FeatureIds :
              AvailableFresh(f) = IsAvailableResult(EmptyGate, Stated(Stored), now, f)
        /\ last.op \in {"status", "isAvailable", "require", "features"} => last.exit = 0
        /\ last.op = "status" =>
              /\ last.shown.expiryDay = Stored.activatedAt + Stated(Stored).cacheValidDays
              /\ last.path = "Grace" => last.shown.graceDays = Stated(Stored).gracePeriodDays

\* status has shown the grace period of a record that states neither window
C22_Witness ==
    /\ last.op = "status"
    /\ last.path = "Grace"
    /\ Stored.cacheValidDays = Undefined
    /\ Stored.gracePeriodDays = Undefined
    /\ last.shown.graceDays = 7
    /\ now = 37

\* C23: a deactivate reaches deleteLicenseCache() for key K only when the
\* authority has accepted the deactivation of K or the tracker holds K, so
\* the cache it removes is always covered by one of the two; when the probe
\* or setPendingDeactivation throws, the cache is left in place.
C23_DeactivateOrdering ==
    [][ /\ (inflight.deactivate # Null /\ inflight.deactivate.pc = "delete") =>
              \/ inflight.deactivate.path = "online"
              \/ pending = [pending |-> TRUE, key |-> inflight.deactivate.cache.key]
        /\ (last'.op = "deactivate" /\ last'.path \in {"online", "fallback", "offline"}) =>
              /\ cache' = Null
              /\ last'.path = "online" \/ pending' = [pending |-> TRUE, key |-> last'.key]
        /\ (last'.op = "deactivate" /\ last'.path \in DeactivateThrows) =>
              cache' = cache ]_vars

\* the fallback has written the tracker and the cache is not deleted yet
C23_Witness ==
    /\ inflight.deactivate # Null
    /\ inflight.deactivate.pc = "delete"
    /\ inflight.deactivate.path = "fallback"
    /\ Stored # Null
    /\ pending = [pending |-> TRUE, key |-> Stored.key]

\* C25, as stated: once the cache is absent, no step of a validate stores a
\* record.
C25_NoWriteBack ==
    [][ (Stored = Null /\ last'.op = "validate") => readLicenseCache(cache') = Null ]_vars

\* C25, amended: with the cache absent, a validate that starts reads nothing
\* and writes nothing, and so does one whose reply is not valid or fails; a
\* validate suspended since before the deletion whose reply is valid writes
\* the record it read, refreshed from the reply (the last writer wins).
C25_LastWriterWins ==
    [][ (Stored = Null /\ last'.op = "validate") =>
            /\ last'.path = "ok" =>
                  /\ inflight.validate # Null
                  /\ cache' = [key |-> inflight.validate.cache.key,
                               activatedAt |-> inflight.validate.cache.activatedAt,
                               expiresAt |-> last'.reply.expiresAt,
                               features |-> last'.reply.features,
                               seats |-> last'.reply.seats,
                               cacheValidDays |-> last'.reply.cacheValidDays,
                               gracePeriodDays |-> last'.reply.gracePeriodDays,
                               lastValidated |-> now]
            /\ last'.path # "ok" => readLicenseCache(cache') = Null ]_vars

\* deactivate has deleted the cache while a validate that had read it is
\* still suspended on its network call
C25_Witness ==
    /\ last.op = "deactivate"
    /\ last.path = "online"
    /\ cache = Null
    /\ inflight.validate # Null
    /\ inflight.validate.cache.key = last.key

\* C24: once the tracker reports a pending deactivation of key K it keeps
\* reporting K through every later step (no handler reports a pending
\* deactivation to the authority, so none is ever due to be cleared).
C24_PendingKept ==
    [][ pending.pending => pending' = pending ]_vars

\* C26: whenever status runs while the state is Active, strictly before the
\* expiry boundary isExpired uses (lastValidated + cacheValidDays when
\* lastValidated is present, activatedAt + cacheValidDays otherwise), its
\* Cache line says valid with a positive number of days remaining.
C26_StatusCacheLine ==
    (last.op = "status" /\ last.path = "Active" /\ Stored # Null /\ now < ExpiryDay(Stored)) =>
        /\ last.shown.cacheLine = "valid"
        /\ last.shown.daysRemaining > 0

\* C27: whenever status runs while hasPending() reports pending = true, it
\* prints the pending offline deactivation warning, cached license or not.
C27_StatusPendingWarning ==
    (last.op = "status" /\ pending.pending) => last.shown.pendingWarning

\* C28: a validate that receives valid: false leaves the stored cache, the
\* tracker and the gate as they were, so the license state and every
\* isAvailable answer after the call are those before it.
C28_InvalidReplyChangesNothing ==
    [][ (last'.op = "validate" /\ last'.path = "invalid") =>
            /\ cache' = cache
            /\ pending' = pending
            /\ gate' = gate
            /\ StateNow' = StateNow
            /\ \A f \in FeatureIds : AvailableNow(f)' = AvailableNow(f) ]_vars

\* the authority has answered valid: false and the license is still stored
\* and its feature still available
C28_Witness ==
    /\ last.op = "validate"
    /\ last.path = "invalid"
    /\ last.exit = 0
    /\ StateNow = "Active"
    /\ \E f \in FeatureIds : AvailableNow(f)

\* C29: an activate that the authority rejects, or whose call fails, writes
\* no cache, does not reload the gate and leaves the tracker alone; a record
\* cached before the attempt is still cached with the same contents.
C29_FailedActivateChangesNothing ==
    [][ (last'.op = "activate" /\ last'.path \in {"rejected", "network"}) =>
            /\ last'.exit = 1
            /\ cache' = cache
            /\ gate' = gate
            /\ pending' = pending ]_vars

\* the authority has rejected the activation of another key while a license
\* was cached and a deactivation pending
C29_Witness ==
    /\ last.op = "activate"
    /\ last.path = "rejected"
    /\ Stored # Null
    /\ Stored.key # last.key
    /\ pending.pending

\* the number of lines of the .npmrc that include `sub`
LinesWith(sub) ==
    Cardinality({i \in 1..Len(files.npmrc) : Includes(files.npmrc[i], sub)})

\* C30: a setup that writes .npmrc right after a setup that wrote it with the
\* same token leaves the content as it was, and after any setup that wrote
\* the file there is exactly one @aios registry line and exactly one
\* auth-token line.
C30_SetupIdempotent ==
    [][ (last'.op = "setup" /\ last'.path = "written") =>
            /\ LinesWith("@aios:registry")' = 1
            /\ LinesWith(tokenConfig)' = 1
            /\ (last.op = "setup" /\ last.path = "written" /\ last'.key = last.key) =>
                  files'.npmrc = files.npmrc ]_vars

====
